---- MODULE Spec2Model ----
(***************************************************************************)
(* Model of src/src/filesys/inode.c (PintOS indexed inodes).               *)
(*                                                                         *)
(* A device sector is a sequence of BLOCK_SECTOR_SIZE cells.  The same     *)
(* sector is read by the code as data bytes, as an indirect_block_ptr or    *)
(* as an inode_disk, so all three views share one representation: a cell   *)
(* is one data byte, one block_ptrs[] entry, or one field of inode_disk    *)
(* (length, direct_blocks[0..], indirect_block, doubly_indirect_block; the *)
(* magic and dir fields are written once and never read by inode.c).       *)
(* The layout constants are scaled down together: 4 cells per sector       *)
(* instead of 512 bytes / 128 pointers, keeping                            *)
(*   NUM_DBL_INDIRECT_PTRS = NUM_INDIRECT_PTRS * NUM_INDIRECT_PTRS and     *)
(*   NUM_DIRECT_BLOCKS < NUM_INDIRECT_PTRS.                                *)
(***************************************************************************)
EXTENDS Integers, Sequences, FiniteSets, TLC

\* ---------------------------------------------------------------- constants
BLOCK_SECTOR_SIZE == 4
NUM_DIRECT_BLOCKS == 1
NUM_INDIRECT_PTRS == 4
NUM_DBL_INDIRECT_PTRS == 16

\* ------------------------------------------------------------------- bounds
\* Sectors of fs_device in Spec (one inode; files in the direct and
\* single-indirect ranges).
NumSectors == 7
\* Sectors of fs_device in SpecDouble (one inode; its file reaches the
\* double-indirect range).
NumSectorsDouble == 8
\* Sectors of fs_device in SpecShared (several inodes, no reads or writes),
\* and the sectors the callers use for inodes there (1 .. NumInodeSectors).
NumSectorsShared == 5
NumInodeSectors == 2
\* Sectors of fs_device in SpecLarge (one inode; room for a full tree).
NumSectorsLarge == 30
\* Sectors of fs_device in SpecInner (one inode; the free map runs out inside
\* an inner indirect block of the double-indirect range).
NumSectorsInner == 11
\* Bound on the number of inode_write_at calls that pass the deny check.
MaxWrites == 2
\* Bound on open_cnt: the callers hold at most this many references to a handle.
MaxOpenCnt == 2

VARIABLES
  disk,           \* fs_device: sector number -> sector contents
  free_map,       \* free map: sector number -> TRUE when in use
  inodes,         \* heap of struct inode: handle -> record
  open_inodes,    \* the list open_inodes: sequence of handles, front first
  panic,          \* the kernel has stopped (failed ASSERT, access past the device)
  inode_sectors,  \* caller's view of each inode sector: "reserved", "inode", "gone"
  owned,          \* inode sector -> sectors taken from the free map for that inode
  held,           \* handle -> references the callers hold (opens less closes)
  last,           \* the last call that returned a value or released sectors
  count           \* calls made so far, for the bounds

vars == <<disk, free_map, inodes, open_inodes, panic, inode_sectors, owned, held,
          last, count>>

\* ------------------------------------------------------------------ helpers
Min(a, b) == IF a < b THEN a ELSE b
Max(a, b) == IF a < b THEN b ELSE a

zeros == [i \in 1..BLOCK_SECTOR_SIZE |-> 0]

\* DIV_ROUND_UP (size, BLOCK_SECTOR_SIZE)
bytes_to_sectors(size) == (size + BLOCK_SECTOR_SIZE - 1) \div BLOCK_SECTOR_SIZE

\* struct inode_disk as the cells of its sector.
LengthOf(d) == d[1]
DirectOf(d, i) == d[2 + i]
IndirectOf(d) == d[NUM_DIRECT_BLOCKS + 2]
DoublyOf(d) == d[NUM_DIRECT_BLOCKS + 3]
SetLength(d, v) == [d EXCEPT ![1] = v]
SetDirect(d, i, v) == [d EXCEPT ![2 + i] = v]
SetIndirect(d, v) == [d EXCEPT ![NUM_DIRECT_BLOCKS + 2] = v]
SetDoubly(d, v) == [d EXCEPT ![NUM_DIRECT_BLOCKS + 3] = v]

\* block_ptrs[i] of an indirect_block_ptr, i counted from 0.
PtrAt(blk, i) == blk[i + 1]
SetPtr(blk, i, v) == [blk EXCEPT ![i + 1] = v]

\* --------------------------------------------------- device and free map
\* The operators below thread a record w = [disk, fm, panic, afail, rel]:
\* the device, the free map, whether the kernel has stopped, whether a
\* free_map_allocate of this call has failed, and the sectors released by
\* this call, in order.  After a panic nothing more takes effect.

MkWorld(d, f) == [disk |-> d, fm |-> f, panic |-> FALSE, afail |-> FALSE, rel |-> <<>>]

InDevice(w, s) == s \in DOMAIN w.disk

\* block_read: the contents read (a sector past the end of the device stops
\* the kernel, see BlockCheck).
BlockRead(w, s) == IF InDevice(w, s) THEN w.disk[s] ELSE zeros

\* The sector check block_read makes before the transfer.
BlockCheck(w, s) == IF w.panic \/ InDevice(w, s) THEN w ELSE [w EXCEPT !.panic = TRUE]

\* block_write (fs_device, s, buf)
BlockWrite(w, s, buf) ==
  IF w.panic THEN w
  ELSE IF ~InDevice(w, s) THEN [w EXCEPT !.panic = TRUE]
  ELSE [w EXCEPT !.disk[s] = buf]

FreeSectors(w) == {s \in DOMAIN w.fm : s # 0 /\ ~w.fm[s]}

LowestOf(S) == CHOOSE s \in S : \A t \in S : s <= t

\* free_map_allocate (1, &sector) when the free sectors are free: the lowest
\* of them, never sector 0.  On failure the caller's *sector is left as it was.
FreeMapTake(w, free) ==
  IF w.panic THEN [w |-> w, ok |-> FALSE, sector |-> 0]
  ELSE IF free = {}
    THEN [w |-> [w EXCEPT !.afail = TRUE], ok |-> FALSE, sector |-> 0]
    ELSE [w |-> [w EXCEPT !.fm[LowestOf(free)] = TRUE], ok |-> TRUE,
          sector |-> LowestOf(free)]

FreeMapAllocate(w) == FreeMapTake(w, FreeSectors(w))

\* free_map_release (s, 1)
FreeMapRelease(w, s) ==
  IF w.panic THEN w
  ELSE IF ~InDevice(w, s) THEN [w EXCEPT !.panic = TRUE]
  ELSE [w EXCEPT !.fm[s] = FALSE, !.rel = Append(@, s)]

\* --------------------------------------------------------- inode_alloc_iblock
RECURSIVE inode_alloc_iblock(_, _, _, _, _)
RECURSIVE AllocIblockFor(_, _, _, _, _, _, _, _)

\* Lines 493-505 for an entry that is 0, a the result of free_map_allocate.
AllocIblockLeaf(a, sec, blk, ss, size, height, unit, index, limit) ==
  IF a.ok
  THEN AllocIblockFor(BlockWrite(BlockWrite(a.w, a.sector, zeros), sec,
                                 SetPtr(blk, index, a.sector)),
                      sec, SetPtr(blk, index, a.sector), ss - size, height, unit,
                      index + 1, limit)
  ELSE [w |-> a.w, ss |-> ss, ok |-> FALSE]

\* Lines 481-491, r the result of the recursive call on block_ptrs[index].
AllocIblockChild(r, sec, blk, ss, size, height, unit, index, limit) ==
  IF r.ok
  THEN AllocIblockFor(BlockWrite(r.w, sec, SetPtr(blk, index, r.sector)),
                      sec, SetPtr(blk, index, r.sector), ss - size, height, unit,
                      index + 1, limit)
  ELSE [w |-> r.w, ss |-> ss, ok |-> FALSE]

\* The for loop of inode_alloc_iblock (lines 469-506) from index on, for the
\* block blk held in the local indirect_block of the block at sector sec.
\* Returns [w, ss, ok]: ok = FALSE is the `return false' of the loop body.
AllocIblockFor(w, sec, blk, ss, height, unit, index, limit) ==
  IF index >= limit THEN [w |-> w, ss |-> ss, ok |-> TRUE]
  ELSE IF height = 1
  THEN
    IF PtrAt(blk, index) = 0
    THEN AllocIblockLeaf(FreeMapAllocate(w), sec, blk, ss, Min(ss, unit), height,
                         unit, index, limit)
    ELSE AllocIblockFor(BlockWrite(w, sec, blk), sec, blk, ss - Min(ss, unit),
                        height, unit, index + 1, limit)
  ELSE AllocIblockChild(inode_alloc_iblock(w, PtrAt(blk, index), Min(ss, unit),
                                           height - 1, 1),
                        sec, blk, ss, Min(ss, unit), height, unit, index, limit)

\* Lines 458-462 when *sector is 0, a the result of free_map_allocate, which
\* the code does not look at: [w, sector].
AllocIblockNew(a) ==
  [w |-> BlockWrite(a.w, IF a.ok THEN a.sector ELSE 0, zeros),
   sector |-> IF a.ok THEN a.sector ELSE 0]

\* Lines 458-462: [w, sector], sector the value of *sector afterwards.
AllocIblockEnsure(w, sector) ==
  IF sector = 0 THEN AllocIblockNew(FreeMapAllocate(w))
  ELSE [w |-> w, sector |-> sector]

\* Line 507 and the next pass of the while loop, f the result of the for loop.
AllocIblockNext(f, sec, height, unit) ==
  IF f.ok
  THEN inode_alloc_iblock(f.w, sec, f.ss, height - 1, unit)
  ELSE [w |-> f.w, sector |-> sec, ok |-> FALSE]

\* Lines 463-506 of one pass, e the [w, sector] left by lines 458-462.
AllocIblockPass(e, sector_size, height, unit) ==
  AllocIblockNext(AllocIblockFor(BlockCheck(e.w, e.sector), e.sector,
                                 BlockRead(e.w, e.sector), sector_size, height,
                                 unit, 0, sector_size \div unit),
                  e.sector, height, unit)

\* inode_alloc_iblock (&sector, sector_size, height), entered with the local
\* `unit' at the value unit0 (1 at the call; the while loop keeps it across its
\* passes).  Returns [w, sector, ok] with sector the value left in *sector.
inode_alloc_iblock(w, sector, sector_size, height, unit0) ==
  IF height <= 0 THEN [w |-> w, sector |-> sector, ok |-> TRUE]
  ELSE AllocIblockPass(AllocIblockEnsure(w, sector), sector_size, height,
                       IF height = 2 THEN NUM_INDIRECT_PTRS ELSE unit0)

\* ------------------------------------------------------------------ inode_alloc
RECURSIVE AllocDirect(_, _, _, _, _)

\* Lines 370-382, a the result of free_map_allocate for direct_blocks[index].
AllocDirectNew(a, d, ss, index, limit) ==
  IF a.ok
  THEN
    IF ss - 1 <= 0
    THEN [w |-> BlockWrite(a.w, a.sector, zeros), d |-> SetDirect(d, index, a.sector),
          ss |-> ss - 1, st |-> "true"]
    ELSE AllocDirect(BlockWrite(a.w, a.sector, zeros), SetDirect(d, index, a.sector),
                     ss - 1, index + 1, limit)
  ELSE [w |-> a.w, d |-> d, ss |-> ss, st |-> "false"]

\* The while loop over direct_blocks (lines 366-385).  st is "true" or
\* "false" for the two returns inside the loop, "go" when the loop ends.
AllocDirect(w, d, ss, index, limit) ==
  IF index >= limit THEN [w |-> w, d |-> d, ss |-> ss, st |-> "go"]
  ELSE IF DirectOf(d, index) = 0
  THEN AllocDirectNew(FreeMapAllocate(w), d, ss, index, limit)
  ELSE AllocDirect(w, d, ss, index + 1, limit)

\* Lines 402-411, j the result of inode_alloc_iblock on doubly_indirect_block
\* and ss the sector_size before line 410.
AllocDoublyDone(j, d, ss, dbl_indirect_limit) ==
  IF ~j.ok THEN [w |-> j.w, d |-> SetDoubly(d, j.sector), ok |-> FALSE]
  ELSE [w |-> j.w, d |-> SetDoubly(d, j.sector), ok |-> ss - dbl_indirect_limit <= 0]

\* Lines 400-411, ss the sector_size left after line 395.
AllocDoubly(w, d, ss) ==
  AllocDoublyDone(IF Min(ss, NUM_DBL_INDIRECT_PTRS) > 0
                  THEN inode_alloc_iblock(w, DoublyOf(d),
                                          Min(ss, NUM_DBL_INDIRECT_PTRS), 2, 1)
                  ELSE [w |-> w, sector |-> DoublyOf(d), ok |-> TRUE],
                  d, ss, Min(ss, NUM_DBL_INDIRECT_PTRS))

\* Lines 388-411, i the result of inode_alloc_iblock on indirect_block and ss
\* the sector_size before line 395.
AllocIndirectDone(i, d, ss, indirect_limit) ==
  IF ~i.ok THEN [w |-> i.w, d |-> SetIndirect(d, i.sector), ok |-> FALSE]
  ELSE IF ss - indirect_limit <= 0
  THEN [w |-> i.w, d |-> SetIndirect(d, i.sector), ok |-> TRUE]
  ELSE AllocDoubly(i.w, SetIndirect(d, i.sector), ss - indirect_limit)

\* Lines 386-411, a the result of the loop over direct_blocks.
AllocIndirect(a) ==
  IF a.st = "true" THEN [w |-> a.w, d |-> a.d, ok |-> TRUE]
  ELSE IF a.st = "false" THEN [w |-> a.w, d |-> a.d, ok |-> FALSE]
  ELSE AllocIndirectDone(IF Min(a.ss, NUM_INDIRECT_PTRS) > 0
                         THEN inode_alloc_iblock(a.w, IndirectOf(a.d),
                                                 Min(a.ss, NUM_INDIRECT_PTRS), 1, 1)
                         ELSE [w |-> a.w, sector |-> IndirectOf(a.d), ok |-> TRUE],
                         a.d, a.ss, Min(a.ss, NUM_INDIRECT_PTRS))

\* inode_alloc (disk_inode, length): [w, d, ok], d the inode_disk as left.
inode_alloc(w, d, length) ==
  AllocIndirect(AllocDirect(w, d, bytes_to_sectors(length), 0,
                            Min(bytes_to_sectors(length), NUM_DIRECT_BLOCKS)))

\* ---------------------------------------------------------------- inode_dealloc
RECURSIVE inode_dealloc_iblock(_, _, _, _)
RECURSIVE DeallocIblockFor(_, _, _, _, _, _, _)
RECURSIVE DeallocIblockWhile(_, _, _, _, _)
RECURSIVE DeallocIblockTail(_, _, _, _)

\* The for loop of lines 531-537: [w, ss].
DeallocIblockFor(w, blk, ss, height, unit, index, limit) ==
  IF index >= limit THEN [w |-> w, ss |-> ss]
  ELSE DeallocIblockFor(inode_dealloc_iblock(w, PtrAt(blk, index), Min(ss, unit),
                                             height - 1),
                        blk, ss - Min(ss, unit), height, unit, index + 1, limit)

\* Lines 538-539 and the next pass of the while loop, f the result of the for
\* loop.
DeallocIblockNext(f, entry, height, unit) ==
  DeallocIblockWhile(FreeMapRelease(f.w, entry), entry, f.ss, height - 1, unit)

\* Lines 525-539 of one pass with unit as set by lines 526-529.
DeallocIblockPass(w, entry, ss, height, unit) ==
  DeallocIblockNext(DeallocIblockFor(BlockCheck(w, entry), BlockRead(w, entry), ss,
                                     height, unit, 0, ss \div unit),
                    entry, height, unit)

\* The while (height > 1) loop of lines 523-540: [w, ss, unit].
DeallocIblockWhile(w, entry, ss, height, unit0) ==
  IF height <= 1 THEN [w |-> w, ss |-> ss, unit |-> unit0]
  ELSE DeallocIblockPass(w, entry, ss, height,
                         IF height = 2 THEN NUM_INDIRECT_PTRS ELSE unit0)

\* The for loop of lines 543-546.
DeallocIblockTail(w, blk, index, limit) ==
  IF index >= limit THEN w
  ELSE DeallocIblockTail(FreeMapRelease(w, PtrAt(blk, index)), blk, index + 1, limit)

\* Lines 541-547, l the result of the while loop.
DeallocIblockEnd(l, entry) ==
  FreeMapRelease(DeallocIblockTail(BlockCheck(l.w, entry), BlockRead(l.w, entry), 0,
                                   l.ss \div l.unit),
                 entry)

\* inode_dealloc_iblock (entry, sector_size, height): the world it leaves.
inode_dealloc_iblock(w, entry, sector_size, height) ==
  IF height = 1 THEN FreeMapRelease(w, entry)
  ELSE DeallocIblockEnd(DeallocIblockWhile(w, entry, sector_size, height, 1), entry)

RECURSIVE DeallocDirect(_, _, _, _)

\* The while loop of lines 425-430.
DeallocDirect(w, d, index, limit) ==
  IF index >= limit THEN w
  ELSE DeallocDirect(FreeMapRelease(w, DirectOf(d, index)), d, index + 1, limit)

\* Lines 438-445, ss the sector_size left after line 437.
DeallocDoubly(w, d, ss) ==
  IF Min(ss, NUM_DBL_INDIRECT_PTRS) > 0
  THEN inode_dealloc_iblock(w, DoublyOf(d), Min(ss, NUM_DBL_INDIRECT_PTRS), 2)
  ELSE w

\* Lines 431-445, ss the sector_size left by the loop over direct_blocks.
DeallocIndirect(w, d, ss) ==
  DeallocDoubly(IF Min(ss, NUM_INDIRECT_PTRS) > 0
                THEN inode_dealloc_iblock(w, IndirectOf(d),
                                          Min(ss, NUM_INDIRECT_PTRS), 1)
                ELSE w,
                d, ss - Min(ss, NUM_INDIRECT_PTRS))

\* Lines 423-445 for sector_size = bytes_to_sectors (length).
DeallocSectors(w, d, sector_size) ==
  DeallocIndirect(DeallocDirect(w, d, 0, Min(sector_size, NUM_DIRECT_BLOCKS)), d,
                  sector_size - Min(sector_size, NUM_DIRECT_BLOCKS))

\* inode_dealloc (disk_inode): the world it leaves.
inode_dealloc(w, d) ==
  IF LengthOf(d) < 0 THEN w
  ELSE DeallocSectors(w, d, bytes_to_sectors(LengthOf(d)))

\* --------------------------------------------------------------- byte_to_sector
\* (block_sector_t) -1, and any other sector number past the end of the device.
NoSector == -1

\* What an out-of-bounds read of block_ptrs[] can yield: any sector of the
\* device, or a number that is no sector of it.
AnySector(w) == DOMAIN w.disk \cup {NoSector}

\* Lines 69-70: block_ptrs[k] of the block b2 read last; bad when one of the
\* two block_reads was past the end of the device.
DoublyEntry(w, b2, k, bad) ==
  IF k \in 0..(NUM_INDIRECT_PTRS - 1)
  THEN {[panic |-> bad, sector |-> PtrAt(b2, k)]}
  ELSE {[panic |-> bad, sector |-> s] : s \in AnySector(w)}

\* Lines 65-72 for sector index idx, p1 the entry of the doubly indirect
\* block that line 67 reads.  In line 70, % binds tighter than -.
DoublyLookup(w, d, idx, indirect_idx, p1) ==
  DoublyEntry(w, BlockRead(w, p1), idx - (indirect_idx % NUM_INDIRECT_PTRS),
              ~InDevice(w, DoublyOf(d)) \/ ~InDevice(w, p1))

\* Lines 46-75 for sector index idx.
SectorOfIndex(w, d, idx, indirect_idx, double_indirect_idx) ==
  IF idx < NUM_DIRECT_BLOCKS
  THEN {[panic |-> FALSE, sector |-> DirectOf(d, idx)]}
  ELSE IF idx < indirect_idx
  THEN {[panic |-> ~InDevice(w, IndirectOf(d)),
         sector |-> PtrAt(BlockRead(w, IndirectOf(d)), idx - NUM_DIRECT_BLOCKS)]}
  ELSE IF idx < double_indirect_idx
  THEN DoublyLookup(w, d, idx, indirect_idx,
                    PtrAt(BlockRead(w, DoublyOf(d)),
                          (idx - indirect_idx) \div NUM_INDIRECT_PTRS))
  ELSE {[panic |-> FALSE, sector |-> NoSector]}

\* byte_to_sector (inode, pos) for the inode_disk d: the set of results the
\* call can have, each [panic, sector]; panic when one of its block_reads is
\* past the end of the device.
byte_to_sector(w, d, pos) ==
  IF pos < LengthOf(d)
  THEN SectorOfIndex(w, d, pos \div BLOCK_SECTOR_SIZE,
                     NUM_DIRECT_BLOCKS + NUM_INDIRECT_PTRS,
                     NUM_DIRECT_BLOCKS + NUM_INDIRECT_PTRS + NUM_DBL_INDIRECT_PTRS)
  ELSE {[panic |-> FALSE, sector |-> NoSector]}

\* Lines 221-227 and 291-297: chunk_size.
ChunkSize(d, size, offset) ==
  Min(size, Min(LengthOf(d) - offset,
                BLOCK_SECTOR_SIZE - (offset % BLOCK_SECTOR_SIZE)))

\* ---------------------------------------------------------------- inode_read_at
RECURSIVE ReadLoop(_, _, _, _, _)

\* Lines 231-253 for one chunk at the sector b.sector.
ReadChunk(w, d, size, offset, out, b, sector_ofs, chunk_size) ==
  IF b.panic \/ ~InDevice(w, b.sector)
  THEN {[panic |-> TRUE, ret |-> 0, out |-> <<>>]}
  ELSE ReadLoop(w, d, size - chunk_size, offset + chunk_size,
                out \o SubSeq(BlockRead(w, b.sector), sector_ofs + 1,
                              sector_ofs + chunk_size))

\* The while loop of inode_read_at with the bytes copied so far in out: the
\* set of [panic, ret, out] the call can end with.
ReadLoop(w, d, size, offset, out) ==
  IF size <= 0 \/ ChunkSize(d, size, offset) <= 0
  THEN {[panic |-> FALSE, ret |-> Len(out), out |-> out]}
  ELSE UNION {ReadChunk(w, d, size, offset, out, b, offset % BLOCK_SECTOR_SIZE,
                        ChunkSize(d, size, offset))
              : b \in byte_to_sector(w, d, offset)}

inode_read_at(w, d, size, offset) == ReadLoop(w, d, size, offset, <<>>)

\* --------------------------------------------------------------- inode_write_at
RECURSIVE WriteLoop(_, _, _, _, _, _)

\* memcpy (bounce + sector_ofs, buffer + bytes_written, chunk_size)
Memcpy(bounce, sector_ofs, chunk) ==
  [i \in 1..BLOCK_SECTOR_SIZE |->
     IF i > sector_ofs /\ i <= sector_ofs + Len(chunk)
     THEN chunk[i - sector_ofs]
     ELSE bounce[i]]

\* Lines 301-325: the sector written for one chunk.
ChunkSector(w, sector, sector_ofs, chunk) ==
  IF sector_ofs = 0 /\ Len(chunk) = BLOCK_SECTOR_SIZE
  THEN chunk
  ELSE Memcpy(IF sector_ofs > 0 \/ Len(chunk) < BLOCK_SECTOR_SIZE - sector_ofs
              THEN BlockRead(w, sector)
              ELSE zeros,
              sector_ofs, chunk)

\* Lines 328-330 after the block_write that left w1.
WriteAdvance(w1, d, buffer, size, offset, bytes_written, chunk_size) ==
  IF w1.panic
  THEN {[w |-> w1, ret |-> 0]}
  ELSE WriteLoop(w1, d, buffer, size - chunk_size, offset + chunk_size,
                 bytes_written + chunk_size)

\* Lines 301-330 for one chunk at the sector b.sector.
WriteChunk(w, d, buffer, size, offset, bytes_written, b, sector_ofs, chunk_size) ==
  IF b.panic
  THEN {[w |-> [w EXCEPT !.panic = TRUE], ret |-> 0]}
  ELSE WriteAdvance(BlockWrite(w, b.sector,
                               ChunkSector(w, b.sector, sector_ofs,
                                           SubSeq(buffer, bytes_written + 1,
                                                  bytes_written + chunk_size))),
                    d, buffer, size, offset, bytes_written, chunk_size)

\* The while loop of inode_write_at: the set of [w, ret] it can end with.
WriteLoop(w, d, buffer, size, offset, bytes_written) ==
  IF size <= 0 \/ ChunkSize(d, size, offset) <= 0
  THEN {[w |-> w, ret |-> bytes_written]}
  ELSE UNION {WriteChunk(w, d, buffer, size, offset, bytes_written, b,
                         offset % BLOCK_SECTOR_SIZE, ChunkSize(d, size, offset))
              : b \in byte_to_sector(w, d, offset)}

\* Lines 276-282, a the result of inode_alloc (&inode->data, offset + size).
WriteGrown(a, ino, buffer, size, offset) ==
  IF a.ok
  THEN {[w |-> o.w, data |-> SetLength(a.d, offset + size), ret |-> o.ret] :
          o \in WriteLoop(BlockWrite(a.w, ino.sector, SetLength(a.d, offset + size)),
                          SetLength(a.d, offset + size), buffer, size, offset, 0)}
  ELSE {[w |-> a.w, data |-> a.d, ret |-> 0]}

\* inode_write_at with the check of lines 272-273 made after the growth.
inode_write_at_grow_first(w, ino, buffer, size, offset) ==
  IF offset + size > LengthOf(ino.data)
  THEN WriteGrown(inode_alloc(w, ino.data, offset + size), ino, buffer, size, offset)
  ELSE IF ino.deny_write_cnt # 0
  THEN {[w |-> w, data |-> ino.data, ret |-> 0]}
  ELSE {[w |-> o.w, data |-> ino.data, ret |-> o.ret] :
          o \in WriteLoop(w, ino.data, buffer, size, offset, 0)}

\* inode_write_at (inode, buffer, size, offset) on the struct inode ino: the
\* set of [w, data, ret] it can end with, data being inode->data as left.
inode_write_at(w, ino, buffer, size, offset) ==
  IF ino.deny_write_cnt # 0
  THEN {[w |-> w, data |-> ino.data, ret |-> 0]}
  ELSE IF offset + size > LengthOf(ino.data)
  THEN WriteGrown(inode_alloc(w, ino.data, offset + size), ino, buffer, size, offset)
  ELSE {[w |-> o.w, data |-> ino.data, ret |-> o.ret] :
          o \in WriteLoop(w, ino.data, buffer, size, offset, 0)}

\* ==================================================================== actions
InodeSectors == DOMAIN inode_sectors

\* Arguments the callers use: <<offset, size>> for reads and writes.
CreateLengths == {0, 3, 8, 20}
WriteArgs == {<<0, 2>>, <<2, 4>>, <<4, 4>>, <<9, 1>>}
ReadArgs == {<<0, 3>>, <<3, 6>>}
CreateLengthsDouble == {0, 3, 22, 37}
WriteArgsDouble == {<<0, 2>>, <<2, 4>>, <<5, 1>>, <<20, 1>>}
ReadArgsDouble == {<<0, 3>>, <<3, 4>>, <<20, 2>>}
CreateLengthsShared == {0, 3}
\* The last byte the tree can address.
LastOffset ==
  (NUM_DIRECT_BLOCKS + NUM_INDIRECT_PTRS + NUM_DBL_INDIRECT_PTRS) * BLOCK_SECTOR_SIZE - 1
CreateLengthsLarge == {0}
WriteArgsLarge == {<<LastOffset, 1>>, <<0, 1>>, <<20, 1>>}
ReadArgsLarge == {<<LastOffset, 1>>}
CreateLengthsInner == {0}
WriteArgsInner == {<<36, 1>>, <<0, 1>>}
ReadArgsInner == {<<0, 1>>}
Tags == {10}

\* The caller's buffer: size bytes, all different, none zero.
Buffer(tag, size) == [i \in 1..size |-> tag + i]

NoCall == [op |-> "none", sector |-> 0, h |-> 0, offset |-> 0, size |-> 0,
           buf |-> <<>>, ret |-> 0, out |-> <<>>, afail |-> FALSE, rel |-> <<>>,
           owned |-> {}, grow |-> FALSE, len0 |-> 0]

Used(fm) == {s \in DOMAIN fm : fm[s]}

\* Contents of a sector nobody has written yet.
stale == [i \in 1..BLOCK_SECTOR_SIZE |-> 7]

\* The state after inode_init, on a device of nsectors sectors whose sectors
\* isectors the callers have reserved in the free map for inodes.
InitWith(nsectors, isectors) ==
  /\ disk = [s \in 0..(nsectors - 1) |-> stale]
  /\ free_map = [s \in 0..(nsectors - 1) |-> s = 0 \/ s \in isectors]
  /\ inodes = <<>>
  /\ open_inodes = <<>>
  /\ panic = FALSE
  /\ inode_sectors = [s \in isectors |-> "reserved"]
  /\ owned = [s \in isectors |-> {}]
  /\ held = <<>>
  /\ last = NoCall
  /\ count = [writes |-> 0]

OneInode == {1}

Init == InitWith(NumSectors, OneInode)

InitDouble == InitWith(NumSectorsDouble, OneInode)

InitShared == InitWith(NumSectorsShared, 1..NumInodeSectors)

InitLarge == InitWith(NumSectorsLarge, OneInode)

InitInner == InitWith(NumSectorsInner, OneInode)

\* The kernel stops inside the call: nothing of the machine is observed after.
Stop(call) ==
  /\ panic' = TRUE
  /\ last' = call
  /\ UNCHANGED <<disk, free_map, inodes, open_inodes, inode_sectors, owned, held,
                 count>>

\* Restriction of a function to the arguments other than h.
Without(f, h) == [x \in DOMAIN f \ {h} |-> f[x]]
\* Extension of a function by h |-> v.
With(f, h, v) == [x \in DOMAIN f \cup {h} |-> IF x = h THEN v ELSE f[x]]

\* CreateWrite with the block_write of line 114 moved out of the if.
CreateWrite_unconditional(a, sector) ==
  [w |-> BlockWrite(a.w, sector, a.d), ret |-> IF a.ok THEN 1 ELSE 0]

\* Lines 112-116, a the result of inode_alloc: [w, ret].
CreateWrite(a, sector) ==
  IF a.ok
  THEN [w |-> BlockWrite(a.w, sector, a.d), ret |-> 1]
  ELSE [w |-> a.w, ret |-> 0]

\* inode_create (sector, length, is_dir): [w, ret].
inode_create(w, sector, length) ==
  CreateWrite(inode_alloc(w, SetLength(zeros, length), length), sector)

CreateCall(sector, length, r) ==
  [NoCall EXCEPT !.op = "create", !.sector = sector, !.size = length,
                 !.ret = r.ret, !.afail = r.w.afail]

CreateDone(sector, length, r) ==
  IF r.w.panic THEN Stop(CreateCall(sector, length, r))
  ELSE
    /\ disk' = r.w.disk
    /\ free_map' = r.w.fm
    /\ inode_sectors' = IF r.ret = 1
                        THEN [inode_sectors EXCEPT ![sector] = "inode"]
                        ELSE inode_sectors
    /\ owned' = [owned EXCEPT ![sector] = @ \cup (Used(r.w.fm) \ Used(free_map))]
    /\ last' = CreateCall(sector, length, r)
    /\ UNCHANGED <<inodes, open_inodes, panic, held, count>>

InodeCreate(sector, length) ==
  /\ ~panic
  /\ inode_sectors[sector] = "reserved"
  /\ CreateDone(sector, length, inode_create(MkWorld(disk, free_map), sector, length))

\* inode_reopen (inode) on the heap.
inode_reopen(heap, h) == [heap EXCEPT ![h].open_cnt = @ + 1]

\* The first element of the list for which the loop of inode_open finds
\* inode->sector == sector, 0 when there is none.
FirstOf(list, found) == IF found = {} THEN 0 ELSE list[LowestOf(found)]

\* FindOpen when the loop of lines 131-140 finds nothing.
FindOpen_none(heap, list, sector) == 0

FindOpen(heap, list, sector) ==
  FirstOf(list, {i \in 1..Len(list) : heap[list[i]].sector = sector})

\* malloc (sizeof *inode): a handle not in use.
NewHandle(heap) == LowestOf((1..(Cardinality(DOMAIN heap) + 1)) \ DOMAIN heap)

\* Lines 143-154: the struct inode a fresh inode_open builds.
NewInode(sector) ==
  [sector |-> sector, open_cnt |-> 1, deny_write_cnt |-> 0, removed |-> FALSE,
   data |-> disk[sector]]

\* inode_open (sector), e the handle its loop found (0: none) and h a new one.
OpenAs(sector, e, h) ==
  /\ IF e # 0
     THEN /\ inodes[e].open_cnt < MaxOpenCnt
          /\ inodes' = inode_reopen(inodes, e)
          /\ held' = [held EXCEPT ![e] = @ + 1]
          /\ UNCHANGED open_inodes
     ELSE /\ inodes' = With(inodes, h, NewInode(sector))
          /\ open_inodes' = <<h>> \o open_inodes
          /\ held' = With(held, h, 1)
  /\ last' = NoCall
  /\ UNCHANGED <<disk, free_map, panic, inode_sectors, owned, count>>

InodeOpen(sector) ==
  /\ ~panic
  /\ inode_sectors[sector] = "inode"
  /\ OpenAs(sector, FindOpen(inodes, open_inodes, sector), NewHandle(inodes))

InodeReopen(h) ==
  /\ ~panic
  /\ h \in DOMAIN inodes
  /\ inodes[h].open_cnt < MaxOpenCnt
  /\ inodes' = inode_reopen(inodes, h)
  /\ held' = [held EXCEPT ![h] = @ + 1]
  /\ last' = NoCall
  /\ UNCHANGED <<disk, free_map, open_inodes, panic, inode_sectors, owned, count>>

\* list_remove (&inode->elem)
ListRemove(list, h) == SelectSeq(list, LAMBDA x : x # h)

\* inode_close_last without the test of line 187.
inode_close_last_always(w, ino) ==
  inode_dealloc(FreeMapRelease(w, ino.sector), ino.data)

\* Lines 183-193 of inode_close, for the last opener: the world left.
inode_close_last(w, ino) ==
  IF ino.removed
  THEN inode_dealloc(FreeMapRelease(w, ino.sector), ino.data)
  ELSE w

CloseCall(h, ino, w) ==
  [NoCall EXCEPT !.op = "close", !.sector = ino.sector, !.h = h,
                 !.ret = IF ino.removed THEN 1 ELSE 0, !.rel = w.rel,
                 !.owned = IF ino.removed THEN owned[ino.sector] ELSE {}]

\* inode_close (inode) by the last opener, w the world lines 183-193 leave.
CloseLast(h, ino, w) ==
  IF w.panic THEN Stop(CloseCall(h, ino, w))
  ELSE
    /\ disk' = w.disk
    /\ free_map' = w.fm
    /\ inodes' = Without(inodes, h)
    /\ held' = Without(held, h)
    /\ open_inodes' = ListRemove(open_inodes, h)
    /\ inode_sectors' = IF ino.removed
                        THEN [inode_sectors EXCEPT ![ino.sector] = "gone"]
                        ELSE inode_sectors
    /\ owned' = IF ino.removed THEN [owned EXCEPT ![ino.sector] = {}] ELSE owned
    /\ last' = CloseCall(h, ino, w)
    /\ UNCHANGED <<panic, count>>

InodeClose(h) ==
  /\ ~panic
  /\ h \in DOMAIN inodes
  /\ IF inodes[h].open_cnt - 1 = 0
     THEN CloseLast(h, inodes[h], inode_close_last(MkWorld(disk, free_map), inodes[h]))
     ELSE
       /\ inodes' = [inodes EXCEPT ![h].open_cnt = @ - 1]
       /\ held' = [held EXCEPT ![h] = @ - 1]
       /\ last' = NoCall
       /\ UNCHANGED <<disk, free_map, open_inodes, panic, inode_sectors, owned, count>>

InodeRemove(h) ==
  /\ ~panic
  /\ h \in DOMAIN inodes
  /\ inodes' = [inodes EXCEPT ![h].removed = TRUE]
  /\ last' = NoCall
  /\ UNCHANGED <<disk, free_map, open_inodes, panic, inode_sectors, owned, held,
                 count>>

\* A call that returns nothing, on handle h.
VoidCall(op, h) == [NoCall EXCEPT !.op = op, !.sector = inodes[h].sector, !.h = h]

\* The struct inode a deny or allow call leaves, or the failed ASSERT.
SetInode(op, h, r) ==
  IF ~r.ok THEN Stop(VoidCall(op, h))
  ELSE /\ inodes' = [inodes EXCEPT ![h] = r.ino]
       /\ last' = NoCall
       /\ UNCHANGED <<disk, free_map, open_inodes, panic, inode_sectors, owned, held,
                      count>>

\* inode_deny_write without the ASSERT of line 342.
inode_deny_write_unchecked(ino) ==
  [ino |-> [ino EXCEPT !.deny_write_cnt = @ + 1], ok |-> TRUE]

\* inode_deny_write (inode): [ino, ok], ok = FALSE when the ASSERT fails.
inode_deny_write(ino) ==
  [ino |-> [ino EXCEPT !.deny_write_cnt = @ + 1],
   ok |-> ino.deny_write_cnt + 1 <= ino.open_cnt]

InodeDenyWrite(h) ==
  /\ ~panic
  /\ h \in DOMAIN inodes
  /\ SetInode("deny", h, inode_deny_write(inodes[h]))

\* inode_allow_write (inode): [ino, ok], ok = FALSE when an ASSERT fails.
inode_allow_write(ino) ==
  [ino |-> [ino EXCEPT !.deny_write_cnt = @ - 1],
   ok |-> ino.deny_write_cnt > 0 /\ ino.deny_write_cnt <= ino.open_cnt]

InodeAllowWrite(h) ==
  /\ ~panic
  /\ h \in DOMAIN inodes
  /\ SetInode("allow", h, inode_allow_write(inodes[h]))

ReadCall(h, size, offset, o) ==
  [NoCall EXCEPT !.op = "read", !.sector = inodes[h].sector, !.h = h,
                 !.offset = offset, !.size = size, !.ret = o.ret, !.out = o.out]

InodeReadAt(h, size, offset) ==
  /\ ~panic
  /\ h \in DOMAIN inodes
  /\ \E o \in inode_read_at(MkWorld(disk, free_map), inodes[h].data, size, offset) :
       IF o.panic THEN Stop(ReadCall(h, size, offset, o))
       ELSE /\ last' = ReadCall(h, size, offset, o)
            /\ UNCHANGED <<disk, free_map, inodes, open_inodes, panic, inode_sectors,
                           owned, held, count>>

WriteCall(h, buffer, size, offset, o) ==
  [NoCall EXCEPT !.op = "write", !.sector = inodes[h].sector, !.h = h,
                 !.offset = offset, !.size = size, !.buf = buffer, !.ret = o.ret,
                 !.afail = o.w.afail,
                 !.grow = offset + size > LengthOf(inodes[h].data),
                 !.len0 = LengthOf(inodes[h].data)]

InodeWriteAt(h, tag, size, offset) ==
  /\ ~panic
  /\ h \in DOMAIN inodes
  /\ inodes[h].deny_write_cnt = 0 => count.writes < MaxWrites
  /\ \E o \in inode_write_at(MkWorld(disk, free_map), inodes[h], Buffer(tag, size),
                            size, offset) :
       IF o.w.panic THEN Stop(WriteCall(h, Buffer(tag, size), size, offset, o))
       ELSE /\ disk' = o.w.disk
            /\ free_map' = o.w.fm
            /\ inodes' = [inodes EXCEPT ![h].data = o.data]
            /\ owned' = [owned EXCEPT ![inodes[h].sector] =
                           @ \cup (Used(o.w.fm) \ Used(free_map))]
            /\ count' = IF inodes[h].deny_write_cnt = 0
                        THEN [count EXCEPT !.writes = @ + 1]
                        ELSE count
            /\ last' = WriteCall(h, Buffer(tag, size), size, offset, o)
            /\ UNCHANGED <<open_inodes, panic, inode_sectors, held>>

\* The calls that create, open, close and remove inodes.
OpenCalls(lengths) ==
  \/ \E s \in InodeSectors, l \in lengths : InodeCreate(s, l)
  \/ \E s \in InodeSectors : InodeOpen(s)
  \/ \E h \in DOMAIN inodes : InodeReopen(h)
  \/ \E h \in DOMAIN inodes : InodeClose(h)
  \/ \E h \in DOMAIN inodes : InodeRemove(h)

\* The calls on an open inode.
DataCalls(wargs, rargs) ==
  \/ \E h \in DOMAIN inodes : InodeDenyWrite(h)
  \/ \E h \in DOMAIN inodes : InodeAllowWrite(h)
  \/ \E h \in DOMAIN inodes, a \in rargs : InodeReadAt(h, a[2], a[1])
  \/ \E h \in DOMAIN inodes, t \in Tags, a \in wargs : InodeWriteAt(h, t, a[2], a[1])

Calls(lengths, wargs, rargs) == OpenCalls(lengths) \/ DataCalls(wargs, rargs)

Next == Calls(CreateLengths, WriteArgs, ReadArgs)

Spec == Init /\ [][Next]_vars

NextDouble == Calls(CreateLengthsDouble, WriteArgsDouble, ReadArgsDouble)

SpecDouble == InitDouble /\ [][NextDouble]_vars

\* Several inodes, opened, reopened, closed and removed.
NextShared == OpenCalls(CreateLengthsShared)

SpecShared == InitShared /\ [][NextShared]_vars

NextLarge == Calls(CreateLengthsLarge, WriteArgsLarge, ReadArgsLarge)

SpecLarge == InitLarge /\ [][NextLarge]_vars

NextInner == Calls(CreateLengthsInner, WriteArgsInner, ReadArgsInner)

SpecInner == InitInner /\ [][NextInner]_vars

\* ===================================================================== claims
\* The world the next call starts from.
Now == MkWorld(disk, free_map)

\* The last call was the inode_close of the last opener of a removed inode,
\* and it returned.
ClosedRemoved == ~panic /\ last.op = "close" /\ last.ret = 1

\* C1: after inode_remove and the inode_close that brings open_cnt to 0,
\* every sector that was allocated for the inode (data sectors, the
\* single-indirect block, the double-indirect block and its inner blocks) and
\* the inode's own sector are free in the free map.
C1_ExhaustiveDeallocation ==
  ClosedRemoved => \A s \in last.owned \cup {last.sector} : ~free_map[s]

\* The last call was an inode_write_at that returned and wrote all of its
\* size > 0 bytes; its handle is still open.
WroteAll ==
  /\ ~panic
  /\ last.op = "write"
  /\ last.size > 0
  /\ last.ret = last.size
  /\ last.h \in DOMAIN inodes

\* C2: after inode_write_at (inode, buf, len, offset) returns len,
\* inode_read_at (inode, out, len, offset) returns len and out equals buf,
\* for offsets in the direct, the single-indirect and the double-indirect
\* range.
C2_RoundTrip ==
  WroteAll =>
    \A o \in inode_read_at(Now, inodes[last.h].data, last.size, last.offset) :
      ~o.panic /\ o.ret = last.size /\ o.out = last.buf

\* The last call was a successful inode_write_at at an offset past the end of
\* the last sector of the file as it was, so that [len0, offset) is a gap the
\* call did not write.
WrotePastGap ==
  /\ WroteAll
  /\ last.grow
  /\ last.offset > last.len0
  /\ last.offset >= bytes_to_sectors(last.len0) * BLOCK_SECTOR_SIZE

\* C3: after a successful inode_write_at at an offset L2 past the end of the
\* last sector of a file of length L1, every byte inode_read_at reads from the
\* gap [L1, L2) is zero, in whichever range the gap falls.
C3_GrowthZeroFill ==
  WrotePastGap =>
    \A p \in last.len0..(last.offset - 1) :
      \A o \in inode_read_at(Now, inodes[last.h].data, 1, p) :
        ~o.panic /\ o.ret = 1 /\ o.out = <<0>>

\* The handles on the list open_inodes.
Listed == {open_inodes[i] : i \in 1..Len(open_inodes)}

\* C4: after any sequence of inode_open, inode_reopen and inode_close calls
\* the list open_inodes holds at most one handle per sector number (an
\* inode_open of a sector that is open hands the caller the handle already
\* there, so no second one appears), and the open_cnt of every handle is the
\* number of opens and reopens of it less the number of closes of it.
C4_SharedHandle ==
  /\ Listed = DOMAIN inodes
  /\ \A i, j \in 1..Len(open_inodes) :
       inodes[open_inodes[i]].sector = inodes[open_inodes[j]].sector => i = j
  /\ \A h \in DOMAIN inodes : inodes[h].open_cnt = held[h]

\* Two sectors are open at once, one of them by two openers sharing a handle.
C4_Witness ==
  /\ Len(open_inodes) = 2
  /\ \E h \in DOMAIN inodes : inodes[h].open_cnt = 2 /\ held[h] = 2

\* 0 <= deny_write_cnt <= open_cnt for every open handle.
DenyBounded ==
  \A h \in DOMAIN inodes :
    0 <= inodes[h].deny_write_cnt /\ inodes[h].deny_write_cnt <= inodes[h].open_cnt

\* C5 as stated: 0 <= deny_write_cnt <= open_cnt for every open handle in
\* every state reached without a failed assertion of inode_deny_write or
\* inode_allow_write, inode_close on a handle all of whose openers have called
\* inode_deny_write included.
C5_DenyBoundedAlways == ~panic => DenyBounded

\* This step is an inode_close by an opener who has called inode_deny_write
\* and not inode_allow_write: every opener of the handle had writes denied.
ClosedWhileDenying ==
  \E h \in DOMAIN inodes :
    /\ InodeClose(h)
    /\ inodes[h].deny_write_cnt = inodes[h].open_cnt

\* C5 amended: 0 <= deny_write_cnt <= open_cnt is kept by every call in
\* which no assertion fails, except an inode_close made while every opener of
\* the handle has writes denied (the callers' duty stated at
\* inode_allow_write: call it before closing).
C5_DenyBoundedByContract ==
  [][(DenyBounded /\ ~panic' /\ ~ClosedWhileDenying) => DenyBounded']_vars

\* Both openers of a handle have called inode_deny_write.
C5_Witness ==
  /\ ~panic
  /\ \E h \in DOMAIN inodes :
       inodes[h].open_cnt = 2 /\ inodes[h].deny_write_cnt = 2

\* C6: while deny_write_cnt > 0 on a handle, every inode_write_at on it
\* returns 0 and leaves unchanged the length and the pointers of the inode,
\* the free map and every sector of the device, also when offset + size is
\* past the length.
C6_DeniedWriteNoOp ==
  [][\A h \in DOMAIN inodes, t \in Tags, a \in WriteArgs :
       (inodes[h].deny_write_cnt > 0 /\ InodeWriteAt(h, t, a[2], a[1])) =>
         /\ ~panic'
         /\ last'.op = "write" /\ last'.ret = 0
         /\ UNCHANGED <<disk, free_map, inodes>>]_vars

\* An inode_write_at that needed growth has returned 0 on a handle with writes
\* denied.
C6_Witness ==
  /\ ~panic
  /\ last.op = "write"
  /\ last.grow
  /\ last.ret = 0
  /\ last.h \in DOMAIN inodes
  /\ inodes[last.h].deny_write_cnt > 0

\* The last call was an inode_write_at that needed growth and in which a
\* free_map_allocate failed.
GrowthFailed == last.op = "write" /\ last.grow /\ last.afail

\* C7: when inode_write_at needs growth and the allocator fails at any point
\* of the growth, the call returns 0 (so its loop has written no byte of the
\* buffer) and the length is as it was, in the handle and in the inode's
\* sector.
C7_GrowthFailureWritesNothing ==
  GrowthFailed =>
    /\ ~panic
    /\ last.ret = 0
    /\ last.h \in DOMAIN inodes
    /\ LengthOf(inodes[last.h].data) = last.len0
    /\ LengthOf(disk[last.sector]) = last.len0

C9_ReadReturnsAvailable ==
  [][\A h \in DOMAIN inodes, a \in ReadArgsLarge :
       InodeReadAt(h, a[2], a[1]) =>
         /\ ~panic'
         /\ last'.ret = Min(a[2], Max(0, LengthOf(inodes[h].data) - a[1]))
         /\ Len(last'.out) = last'.ret
         /\ UNCHANGED <<disk, free_map, inodes, open_inodes>>]_vars

\* The last call was an inode_write_at of one byte at the last offset of the
\* double-indirect range, on an empty inode, with no free_map_allocate failing.
WroteLastByte ==
  /\ last.op = "write"
  /\ last.offset = LastOffset
  /\ last.size = 1
  /\ last.len0 = 0
  /\ ~last.afail

\* Every cell of blk but the last is 0 and the last is a sector in use.
OnlyLastEntry(blk) ==
  /\ \A i \in 0..(NUM_INDIRECT_PTRS - 2) : PtrAt(blk, i) = 0
  /\ PtrAt(blk, NUM_INDIRECT_PTRS - 1) \in Used(free_map) \ {0}

\* The tree of the inode_disk d is the chain to the last leaf alone.
SparseChain(d) ==
  /\ \A i \in 0..(NUM_DIRECT_BLOCKS - 1) : DirectOf(d, i) = 0
  /\ IndirectOf(d) = 0
  /\ DoublyOf(d) \in Used(free_map) \ {0}
  /\ OnlyLastEntry(disk[DoublyOf(d)])
  /\ OnlyLastEntry(disk[PtrAt(disk[DoublyOf(d)], NUM_INDIRECT_PTRS - 1)])

\* C10: on an inode created with length 0 and with enough free sectors,
\* inode_write_at of one byte at the last offset of the double-indirect range
\* returns 1, and afterwards the chain to the last leaf is allocated while
\* every other entry is 0.
C10_LargeFileSparse ==
  WroteLastByte =>
    /\ ~panic
    /\ last.ret = 1
    /\ last.h \in DOMAIN inodes
    /\ SparseChain(inodes[last.h].data)

\* Indirection blocks a tree backing the sector indexes 0 .. n - 1 has: the
\* single-indirect block, the doubly indirect block and its inner blocks.
IndirectionBlocks(n) ==
  (IF n > NUM_DIRECT_BLOCKS THEN 1 ELSE 0)
  + (IF n > NUM_DIRECT_BLOCKS + NUM_INDIRECT_PTRS
     THEN 1 + (n - NUM_DIRECT_BLOCKS - 1) \div NUM_INDIRECT_PTRS
     ELSE 0)

\* Sectors a growth from k backed sector indexes to n has to take.
SectorsMissing(k, n) == (n - k) + IndirectionBlocks(n) - IndirectionBlocks(k)

\* inode_alloc called again on the inode_disk d with the length it has takes
\* no sector and leaves d as it is.
SecondAllocIdle(w, d) ==
  /\ inode_alloc(w, d, LengthOf(d)).ok
  /\ inode_alloc(w, d, LengthOf(d)).w.fm = w.fm
  /\ inode_alloc(w, d, LengthOf(d)).d = d

\* C11: inode_alloc allocates only what is missing.  Called (by a growing
\* inode_write_at) on an inode_disk whose tree backs its first k >= 1 sector
\* indexes with a target needing more, it takes from the free map exactly the
\* sectors for the new indexes and the indirection blocks newly required,
\* and a second call with the same target takes no sector and leaves the tree
\* identical.
C11_AllocOnlyMissing ==
  [][\A h \in DOMAIN inodes, t \in Tags, a \in WriteArgs :
       (/\ InodeWriteAt(h, t, a[2], a[1])
        /\ bytes_to_sectors(LengthOf(inodes[h].data)) >= 1
        /\ bytes_to_sectors(a[1] + a[2]) >= bytes_to_sectors(LengthOf(inodes[h].data))
        /\ last'.grow /\ ~last'.afail /\ ~panic') =>
         /\ Cardinality(Used(free_map') \ Used(free_map))
              = SectorsMissing(bytes_to_sectors(LengthOf(inodes[h].data)),
                               bytes_to_sectors(a[1] + a[2]))
         /\ SecondAllocIdle(MkWorld(disk', free_map'), inodes'[h].data)]_vars

\* block_ptrs[i] of the indirection block at sector s, 0 when s is 0 (no block).
EntryOf(w, s, i) == IF s = 0 THEN 0 ELSE PtrAt(BlockRead(w, s), i)

\* The sector the tree of the inode_disk d holds for sector index i, 0 when it
\* holds none: direct_blocks[i], or the entry of the single-indirect block, or
\* entry (i - N_DIRECT - N_PTRS) mod N_PTRS of the inner block at entry
\* (i - N_DIRECT - N_PTRS) div N_PTRS of the doubly indirect block.
BackingSector(w, d, i) ==
  IF i < NUM_DIRECT_BLOCKS THEN DirectOf(d, i)
  ELSE IF i < NUM_DIRECT_BLOCKS + NUM_INDIRECT_PTRS
  THEN EntryOf(w, IndirectOf(d), i - NUM_DIRECT_BLOCKS)
  ELSE EntryOf(w,
               EntryOf(w, DoublyOf(d),
                       (i - NUM_DIRECT_BLOCKS - NUM_INDIRECT_PTRS) \div NUM_INDIRECT_PTRS),
               (i - NUM_DIRECT_BLOCKS - NUM_INDIRECT_PTRS) % NUM_INDIRECT_PTRS)

\* Every sector index below bytes_to_sectors (length) has a backing sector.
AllBacked(w, d, length) ==
  \A i \in 0..(bytes_to_sectors(length) - 1) : BackingSector(w, d, i) # 0

\* The last call was an inode_write_at whose inode_alloc returned true (the
\* handle has the new length) with no free_map_allocate failing.
GrewTo ==
  /\ ~panic
  /\ last.op = "write"
  /\ last.grow
  /\ ~last.afail
  /\ last.h \in DOMAIN inodes
  /\ LengthOf(inodes[last.h].data) = last.offset + last.size

\* C12: whenever inode_alloc (record, target_length) returns true, every sector
\* index below bytes_to_sectors (target_length) has a non-zero backing sector
\* reachable through the direct, single-indirect or double-indirect pointers,
\* also when the count in the double-indirect range is not a multiple of the
\* pointers per block.
C12_EveryIndexBacked ==
  GrewTo => AllBacked(Now, inodes[last.h].data, last.offset + last.size)

\* The last call was an inode_create or a growing inode_write_at, the two
\* callers of inode_alloc, and a free_map_allocate failed in it.
AllocatorFailed ==
  /\ last.afail
  /\ last.op = "create" \/ (last.op = "write" /\ last.grow)

\* C13: if any free_map_allocate made during inode_alloc fails, at any level,
\* inode_alloc returns false: inode_create returns false, and inode_write_at
\* returns 0 without taking the new length.
C13_AllocFailureReturnsFalse ==
  AllocatorFailed =>
    /\ ~panic
    /\ last.ret = 0
    /\ last.op = "write" =>
         /\ last.h \in DOMAIN inodes
         /\ LengthOf(inodes[last.h].data) = last.len0

\* The non-zero entries of the indirection block at sector s (none when s is 0).
EntriesOf(w, s) == {EntryOf(w, s, i) : i \in 0..(NUM_INDIRECT_PTRS - 1)} \ {0}

\* The sectors linked into the tree of the inode_disk d: its direct blocks,
\* its single-indirect block and the data sectors in it, its doubly indirect
\* block, the inner indirect blocks in it and the data sectors in those.
TreeSectors(w, d) ==
  ({DirectOf(d, i) : i \in 0..(NUM_DIRECT_BLOCKS - 1)}
     \cup {IndirectOf(d), DoublyOf(d)}
     \cup EntriesOf(w, IndirectOf(d))
     \cup EntriesOf(w, DoublyOf(d))
     \cup UNION {EntriesOf(w, s) : s \in EntriesOf(w, DoublyOf(d))}) \ {0}

\* This step is an inode_write_at on handle h, not denied, whose growth fails:
\* it returns 0.
GrowthFails(h, wargs) ==
  /\ \E t \in Tags, a \in wargs : InodeWriteAt(h, t, a[2], a[1])
  /\ inodes[h].deny_write_cnt = 0
  /\ last'.grow
  /\ last'.ret = 0
  /\ ~panic'

\* Every sector the step takes from the free map is linked into the tree of
\* the handle h afterwards.
TakenAreLinked(h) ==
  (Used(free_map') \ Used(free_map))
    \subseteq TreeSectors(MkWorld(disk', free_map'), inodes'[h].data)

\* C14: after a growth attempt that fails part-way, every sector taken from
\* the free map during the attempt is still marked allocated and is linked
\* into the inode's tree; none is left allocated but unreachable.
C14_FailedGrowthLeavesNoOrphan ==
  [][\A h \in DOMAIN inodes :
       GrowthFails(h, WriteArgsInner) => TakenAreLinked(h)]_vars

\* The byte offsets below the length of d whose sector index lies in the
\* double-indirect range.
DoublyOffsets(d) ==
  {p \in 0..(LengthOf(d) - 1) :
     p \div BLOCK_SECTOR_SIZE >= NUM_DIRECT_BLOCKS + NUM_INDIRECT_PTRS}

\* C15: for every byte offset p < length whose sector index s lies in the
\* double-indirect range, byte_to_sector returns entry
\* (s - N_DIRECT - N_PTRS) mod N_PTRS of the inner indirect block found at
\* entry (s - N_DIRECT - N_PTRS) div N_PTRS of the doubly indirect block, with
\* every index into a block within its bounds (so the result is that one
\* sector and nothing else); for p >= length it returns the not-found value.
C15_ByteToSectorDivMod ==
  ~panic =>
    \A h \in DOMAIN inodes :
      /\ \A p \in DoublyOffsets(inodes[h].data) :
           byte_to_sector(Now, inodes[h].data, p)
             = {[panic |-> FALSE,
                 sector |-> BackingSector(Now, inodes[h].data,
                                          p \div BLOCK_SECTOR_SIZE)]}
      /\ \A p \in LengthOf(inodes[h].data)..(LastOffset + 1) :
           byte_to_sector(Now, inodes[h].data, p)
             = {[panic |-> FALSE, sector |-> NoSector]}

\* The positions of sector s in the sequence rel of released sectors.
ReleasesOf(rel, s) == {i \in 1..Len(rel) : rel[i] = s}

\* In rel the child sector c is released, and before any release of its
\* parent p.
ChildFirst(rel, p, c) ==
  \E i \in ReleasesOf(rel, c) : \A j \in ReleasesOf(rel, p) : i < j

\* rel releases every sector of the tree of the inode_disk d before the
\* indirection block that points to it, and the tree before the inode's own
\* sector.
LeafBeforeParent(rel, w, d, sector) ==
  /\ \A c \in TreeSectors(w, d) : ChildFirst(rel, sector, c)
  /\ \A c \in EntriesOf(w, IndirectOf(d)) : ChildFirst(rel, IndirectOf(d), c)
  /\ \A c \in EntriesOf(w, DoublyOf(d)) :
       /\ ChildFirst(rel, DoublyOf(d), c)
       /\ \A e \in EntriesOf(w, c) : ChildFirst(rel, c, e)

\* C16: during the reclamation done by the last inode_close of a removed
\* inode, sectors are released leaf-before-parent: no indirection block
\* before every sector it points to, and the inode's own sector not before the
\* sectors of its tree.
C16_LeafBeforeParent ==
  [][\A h \in DOMAIN inodes :
       (/\ InodeClose(h)
        /\ inodes[h].removed
        /\ inodes[h].open_cnt = 1
        /\ ~panic') =>
         LeafBeforeParent(last'.rel, Now, inodes[h].data, inodes[h].sector)]_vars

\* This step is the inode_close of the last opener of a removed inode.
LastCloseOfRemoved ==
  \E h \in DOMAIN inodes :
    InodeClose(h) /\ inodes[h].removed /\ inodes[h].open_cnt = 1

\* No sector of an open inode is free: neither its own nor one taken for it.
OpenInodesAllocated ==
  \A h \in DOMAIN inodes :
    ({inodes[h].sector} \cup owned[inodes[h].sector]) \subseteq Used(free_map)

\* This step is an inode_read_at or an inode_write_at on a removed inode, and
\* it does what it does on one not removed: the read returns the bytes there
\* are, the write (not denied, the free map not exhausted) all of its bytes.
RemovedStaysUsable ==
  \A h \in DOMAIN inodes :
    inodes[h].removed =>
      /\ \A a \in ReadArgs :
           InodeReadAt(h, a[2], a[1]) =>
             /\ ~panic'
             /\ last'.ret = Min(a[2], Max(0, LengthOf(inodes[h].data) - a[1]))
      /\ \A t \in Tags, a \in WriteArgs :
           (/\ InodeWriteAt(h, t, a[2], a[1])
            /\ inodes[h].deny_write_cnt = 0
            /\ ~last'.afail) =>
             ~panic' /\ last'.ret = a[2]

\* C17: inode_remove releases no sector; while open_cnt > 0 after
\* inode_remove the inode stays readable and writable through its handle and
\* no sector of it is free; sectors are released only by the inode_close that
\* brings open_cnt to 0, and such a close of an inode never removed releases
\* none.
C17_DeferredReclamation ==
  [][/\ OpenInodesAllocated
     /\ RemovedStaysUsable
     /\ LastCloseOfRemoved \/ Used(free_map) \subseteq Used(free_map')]_vars

\* A removed inode, still open, has been written in full.
C17_Witness ==
  /\ ~panic
  /\ last.op = "write"
  /\ last.size > 0
  /\ last.ret = last.size
  /\ last.h \in DOMAIN inodes
  /\ inodes[last.h].removed
  /\ OpenInodesAllocated

\* C18: no operation reads, writes or releases device sector 0 on behalf of
\* an inode: no call passes a pointer value 0 to block_read, block_write or
\* free_map_release.  Checked on what such a call leaves behind: in no step
\* do the contents of sector 0 change, and no call releases sector 0.
C18_SectorZeroUntouched ==
  [][/\ disk'[0] = disk[0]
     /\ ReleasesOf(last'.rel, 0) = {}]_vars

\* rel calls free_map_release at most once for each sector, and only for
\* sectors of the set used, the sectors allocated when the first call is made.
ReleasedOnce(rel, used) ==
  \A i \in 1..Len(rel) :
    /\ rel[i] \in used
    /\ ReleasesOf(rel, rel[i]) = {i}

\* C19: during the reclamation done by the last inode_close of a removed
\* inode, free_map_release is called at most once for each sector and only
\* for sectors marked allocated at the moment of the call, for files of every
\* size up to and including the double-indirect range.
C19_NoDoubleRelease ==
  [][\A h \in DOMAIN inodes :
       (/\ InodeClose(h)
        /\ inodes[h].removed
        /\ inodes[h].open_cnt = 1) =>
         /\ ~panic'
         /\ ReleasedOnce(last'.rel, Used(free_map))]_vars

\* The in-memory inode_disk of the handle h of the heap equals the sector of
\* the device dev the handle stands for.
RecordOnDevice(heap, dev, h) == heap[h].data = dev[heap[h].sector]

\* C20: after inode_open and after every inode_write_at that returned on an
\* open handle (successful, denied, or failed in growth), the in-memory record
\* of the handle (length, direct, indirect and doubly indirect pointers)
\* equals the inode record stored on the device at the handle's sector.
C20_RecordMatchesDevice ==
  [][/\ \A s \in InodeSectors :
          InodeOpen(s) =>
            \A h \in DOMAIN inodes' : inodes'[h].sector = s => RecordOnDevice(inodes', disk', h)
     /\ (last'.op = "write" /\ ~panic') => RecordOnDevice(inodes', disk', last'.h)]_vars

====
